---- MODULE Spec2Model ----
(***************************************************************************)
(* Machine shop (simpy_4_machine_shop.py): NUM_MACHINES machines, each     *)
(* with a MachineFailure actor, one UnimportantWork actor and one          *)
(* repairman (simpy.PreemptiveResource, capacity 1), driven by the simpy   *)
(* event queue.  Every action pops the head of the event queue and runs    *)
(* the callbacks of that event to completion.  Times and durations are     *)
(* Python floats, kept as binary64 values: sums and differences are        *)
(* rounded as Python rounds them.                                          *)
(* An Actor runs the handler of its state and, when the handler returns    *)
(* the next state, runs that handler at once, without yielding in between. *)
(* Events, interrupts and the resource behave as in simpy 4.               *)
(***************************************************************************)
EXTENDS Integers, Sequences, FiniteSets, TLC

\* ---------------------------------------------------------------- constants
REPAIR_TIME == 30
UNIMPORTANT_WORK_TIME == 7
\* Bounds of the model: the number of machines (three, so that two Machines
\* can wait for the repairman while a third is repaired), the horizon of
\* env.run (longer than three repairs that follow one another), the virtual
\* time up to which the draws of a step range over all the durations of the
\* model, and the number of returns of each draw taken from the seeded
\* generator.
NUM_MACHINES == 3
SIM_TIME == 105
DrawTime == 10
NumSamples == 2
\* Faulty variant: a repairman with two slots.
CapacityTwo == 1 + 1
\* Parameters of the resource and the priorities of the event queue.
Capacity == 1
URGENT == 0
NORMAL == 1

\* ---------------------------------------------------------------- processes
UW == 0
Machines == 1 .. NUM_MACHINES
Failure(i) == 0 - i
Failures == {Failure(i) : i \in Machines}
Workers == {UW} \cup Machines
Procs == Workers \cup Failures

VARIABLES
    now,        \* env.now
    queue,      \* env._queue, in (time, priority, insertion) order
    status,     \* "running", "stopped" (horizon), "crashed" (exception raised)
    pc,         \* where each process is suspended
    work_left,  \* Machine.work_left / UnimportantWork.work_left
    start,      \* the local variable start of working()
    broken,     \* Machine.broken
    parts_made, \* Machine.parts_made
    works_made, \* UnimportantWork.works_made
    request,    \* the request object each worker holds inside its with block
    users,      \* repairman.users
    put_queue,  \* repairman.put_queue (SortedQueue)
    held,       \* history: time UnimportantWork held the repairman for its job
    last        \* history: the event processed last and the state it found

vars == <<now, queue, status, pc, work_left, start, broken, parts_made,
          works_made, request, users, put_queue, held, last>>

\* ---------------------------------------------------------------- numbers
\* env.now, start, work_left and the drawn durations are Python floats (IEEE
\* 754 binary64).  The magnitude of a float below 2^24 that is a multiple of
\* 2^-56 is written as its count of 2^-56 in NumDigits digits of base 2^16,
\* least significant first; sums and differences are formed exactly and
\* rounded to 53 significant bits, ties to even.
MantissaBits == 53
FracBits == 56
DigitBits == 16
Base == 2 ^ DigitBits
NumDigits == 5
Digits == 1 .. NumDigits

\* Exact sum of two digit sequences.
AddL(a, b) ==
    LET C[i \in 0 .. NumDigits] ==
            IF i = 0 THEN 0 ELSE (a[i] + b[i] + C[i - 1]) \div Base
    IN  [i \in Digits |-> (a[i] + b[i] + C[i - 1]) % Base]

\* Exact difference a - b of two digit sequences, for a >= b.
SubL(a, b) ==
    LET B[i \in 0 .. NumDigits] ==
            IF i = 0 THEN 0
            ELSE IF a[i] - b[i] - B[i - 1] < 0 THEN 1 ELSE 0
    IN  [i \in Digits |-> (a[i] - b[i] - B[i - 1] + Base) % Base]

LessL(a, b) ==
    \E i \in Digits : a[i] < b[i] /\ \A j \in Digits : j > i => a[j] = b[j]

\* Number of significant bits of a digit sequence.
BitLength(a) ==
    LET top == IF \A i \in Digits : a[i] = 0 THEN 0
               ELSE CHOOSE i \in Digits : a[i] # 0 /\ \A j \in Digits : j > i => a[j] = 0
    IN  IF top = 0 THEN 0
        ELSE DigitBits * (top - 1)
             + (CHOOSE n \in 1 .. DigitBits : a[top] < 2 ^ n /\ a[top] >= 2 ^ (n - 1))

\* Bit n of a digit sequence (bit 0 is the lowest), the sequence without its
\* bits below n, and the sequence whose only bit is bit n.
BitL(a, n) == (a[(n \div DigitBits) + 1] \div 2 ^ (n % DigitBits)) % 2
TruncL(a, n) ==
    [i \in Digits |->
        IF DigitBits * i <= n THEN 0
        ELSE IF DigitBits * (i - 1) < n
             THEN a[i] - (a[i] % 2 ^ (n - DigitBits * (i - 1)))
             ELSE a[i]]
UnitL(n) ==
    [i \in Digits |-> IF i = (n \div DigitBits) + 1 THEN 2 ^ (n % DigitBits) ELSE 0]

\* The value of an expression, computed once.
Value(S) == CHOOSE v \in S : TRUE

\* Rounding away the k lowest bits, to nearest, ties to even.
RoundBits(a, k) ==
    LET half == BitL(a, k - 1) = 1
        more == TruncL(a, k - 1) # a
        odd == BitL(a, k) = 1
    IN  IF k <= 0 THEN a
        ELSE IF half /\ (more \/ odd)
             THEN Value({AddL(down, unit) : down \in {TruncL(a, k)}, unit \in {UnitL(k)}})
             ELSE TruncL(a, k)

\* Rounding to MantissaBits significant bits.
RoundL(a) == Value({RoundBits(a, k) : k \in {BitLength(a) - MantissaBits}})

\* The magnitudes of a + b and of a - b (for a >= b) as Python computes them.
FlAdd(a, b) == Value({RoundL(s) : s \in {AddL(a, b)}})
FlSub(a, b) == Value({RoundL(s) : s \in {SubL(a, b)}})

\* A float with its sign; zero is kept non-negative.
ZeroL == [i \in Digits |-> 0]
Pos(a) == [neg |-> FALSE, mag |-> a]
FlNeg(a) == IF a.mag = ZeroL THEN a ELSE [a EXCEPT !.neg = ~a.neg]

\* a + b, a - b and a < b of Python floats.
FlPlus(a, b) ==
    IF a.neg = b.neg THEN [neg |-> a.neg, mag |-> FlAdd(a.mag, b.mag)]
    ELSE IF a.mag = b.mag THEN Pos(ZeroL)
    ELSE IF LessL(a.mag, b.mag) THEN [neg |-> b.neg, mag |-> FlSub(b.mag, a.mag)]
    ELSE [neg |-> a.neg, mag |-> FlSub(a.mag, b.mag)]
FlLess(a, b) ==
    IF a.neg # b.neg THEN a.neg
    ELSE IF a.neg THEN LessL(b.mag, a.mag) ELSE LessL(a.mag, b.mag)
Plus(x, y) == Value({FlPlus(a, b) : a \in {x}, b \in {y}})
Minus(x, y) == Value({FlPlus(a, FlNeg(b)) : a \in {x}, b \in {y}})
Less(x, y) == Value({FlLess(a, b) : a \in {x}, b \in {y}})
Leq(x, y) == ~Less(y, x)

\* The float of a whole number below 2^16.
Num(n) ==
    LET d == (FracBits \div DigitBits) + 1
        m == n * 2 ^ (FracBits % DigitBits)
    IN  Pos([i \in Digits |->
                IF i = d THEN m % Base ELSE IF i = d + 1 THEN m \div Base ELSE 0])
Zero == Num(0)
Negative(a) == Less(a, Zero)
Positive(a) == Less(Zero, a)

\* What time_per_part() returns on its first calls after
\* random.seed(RANDOM_SEED): 10.490652683415727, 9.006311053177594 (the
\* work_left of the first two machines in the run of the program) and
\* 12.509571862114925; and what time_to_failure() returns on its first calls
\* after random.seed(RANDOM_SEED): 306.0180861824403, 7.598651712821667 and
\* 96.48721922248967.
PartSamples ==
    <<Pos(<<5760, 3319, 39786, 2685, 0>>), Pos(<<18176, 59136, 40345, 2305, 0>>),
      Pos(<<54272, 12990, 29517, 3202, 0>>)>>
FailSamples ==
    <<Pos(<<12288, 51735, 41291, 12804, 1>>), Pos(<<28928, 6211, 16701, 1945, 0>>),
      Pos(<<24576, 8851, 47718, 24700, 0>>)>>

\* Durations time_per_part() may return: the first NumSamples of PartSamples.
PartTimes == {PartSamples[k] : k \in 1 .. NumSamples}

\* Durations time_to_failure() may return: the first NumSamples of
\* FailSamples, 0 (random() = 0.0 makes expovariate return -0.0, which
\* env.timeout accepts and adds to env.now as 0.0), a failure at once, and
\* the return that makes a failure coincide with a due time of
\* UnimportantWork: 28.0 (random() = 0.08911018025438788), the instant the
\* fourth unimportant job is due.
FailTimes ==
    {FailSamples[k] : k \in 1 .. NumSamples}
        \cup {Zero, Num(4 * UNIMPORTANT_WORK_TIME)}

\* Returns that make a failure coincide with the work timeout of a part whose
\* due time was rounded: time_per_part() = 9.006311053177594 and then
\* 4.993688947375104 (random() = 0.3561711395474607 and 0.9014274576114836),
\* time_to_failure() = 14.0000000005527 (random() = 0.04559452026811173) or
\* 306.0180861824403.
TieParts == {PartSamples[2], Pos(<<27584, 7007, 25190, 1278, 0>>)}
TieFails == {Pos(<<45824, 607, 0, 3584, 0>>), FailSamples[1]}

\* ---------------------------------------------------------------- event queue
Event(t, prio, kind, p) ==
    [time |-> t, prio |-> prio, kind |-> kind, proc |-> p, live |-> TRUE,
     cause |-> "None"]

\* The Interruption of a holder the resource preempts: its cause is a
\* simpy.resources.resource.Preempted.
Preemption(t, p) == [Event(t, URGENT, "Interruption", p) EXCEPT !.cause = "Preempted"]

\* Position ordering of heapq on (time, priority, eid): a new event goes
\* behind every event that is not later and not less urgent.
Before(a, b) == Less(a.time, b.time) \/ (a.time = b.time /\ a.prio <= b.prio)

\* Faulty variant: a new event goes ahead of the events of its time and priority.
ScheduleLifo(q, e) ==
    LET Push(s, n) ==
            LET k == Cardinality({i \in 1 .. Len(s) :
                         Less(s[i].time, n.time)
                         \/ (s[i].time = n.time /\ s[i].prio < n.prio)})
            IN  SubSeq(s, 1, k) \o <<n>> \o SubSeq(s, k + 1, Len(s))
    IN  Value({Push(s, n) : s \in {q}, n \in {e}})

Schedule(q, e) ==
    LET Push(s, n) ==
            LET k == Cardinality({i \in 1 .. Len(s) : Before(s[i], n)})
            IN  SubSeq(s, 1, k) \o <<n>> \o SubSeq(s, k + 1, Len(s))
    IN  Value({Push(s, n) : s \in {q}, n \in {e}})

\* env.timeout(delay), for a delay that is not negative.
Timeout(q, t, delay, p) ==
    Value({Schedule(q, Event(due, NORMAL, "Timeout", p)) : due \in {Plus(t, delay)}})

\* The generator of p ends on an exception nobody handles: the Process event
\* is scheduled as failed.
Fails(q, t, p) == Schedule(q, Event(t, NORMAL, "Process", p))

\* Interruption._interrupt removes the target's _resume from the event it
\* waits for; the event itself stays in the queue.
Unhook(q, p) ==
    [i \in 1 .. Len(q) |->
        IF q[i].proc = p /\ q[i].kind \in {"Timeout", "Request"}
        THEN [q[i] EXCEPT !.live = FALSE] ELSE q[i]]

RemoveProc(s, p) ==
    LET F[i \in 0 .. Len(s)] ==
            IF i = 0 THEN <<>>
            ELSE IF s[i] = p THEN F[i - 1] ELSE Append(F[i - 1], s[i])
    IN  F[Len(s)]

InSeq(s, p) == \E i \in 1 .. Len(s) : s[i] = p

\* ---------------------------------------------------------------- resource
NoRequest ==
    [state |-> "none", priority |-> 0, time |-> Zero, usage_since |-> Zero]

\* PriorityRequest.key = (priority, time, not preempt), compared as tuples.
KeyLess(a, b) ==
    a.priority < b.priority
    \/ (a.priority = b.priority /\ Less(a.time, b.time))
KeyLeq(a, b) == ~KeyLess(b, a)

\* The resource and the event queue as one value the operations thread.
Res(u, pq, rq, q) == [users |-> u, put_queue |-> pq, request |-> rq, queue |-> q]

\* SortedQueue.append: append, then a stable sort by key.
SortedAppend(pq, rq, p) ==
    LET Sorted(s, f) ==
            LET k == Cardinality({i \in 1 .. Len(s) : KeyLeq(f[s[i]], f[p])})
            IN  SubSeq(s, 1, k) \o <<p>> \o SubSeq(s, k + 1, Len(s))
    IN  Value({Sorted(s, f) : s \in {pq}, f \in {rq}})

\* sorted(self.users, key=lambda e: e.key)[-1]
LeastImportantUser(r) ==
    CHOOSE i \in 1 .. Len(r.users) :
        \A j \in 1 .. Len(r.users) :
            \/ KeyLess(r.request[r.users[j]], r.request[r.users[i]])
            \/ (KeyLeq(r.request[r.users[j]], r.request[r.users[i]]) /\ j <= i)

\* Faulty variant: a PriorityResource, whose _do_put never preempts.
DoPutPriorityResource(r, p, t) ==
    IF Len(r.users) < Capacity
    THEN Res(Append(r.users, p), r.put_queue,
             [r.request EXCEPT ![p].state = "granted", ![p].usage_since = t],
             Schedule(r.queue, Event(t, NORMAL, "Request", p)))
    ELSE r

\* PreemptiveResource._do_put followed by Resource._do_put.
DoPut(r, p, t) ==
    LET full == Len(r.users) >= Capacity
        victim == r.users[LeastImportantUser(r)]
        preempts == full /\ KeyLess(r.request[p], r.request[victim])
        u1 == IF preempts THEN RemoveProc(r.users, victim) ELSE r.users
        q1 == IF preempts
              THEN Schedule(r.queue, Preemption(t, victim))
              ELSE r.queue
    IN  IF Len(u1) < Capacity
        THEN Res(Append(u1, p), r.put_queue,
                 [r.request EXCEPT ![p].state = "granted", ![p].usage_since = t],
                 Schedule(q1, Event(t, NORMAL, "Request", p)))
        ELSE Res(u1, r.put_queue, r.request, q1)

\* BaseResource._trigger_put: _do_put returns None, so only the head of the
\* put queue is tried.
TriggerPut(r, t) ==
    IF r.put_queue = <<>> THEN r
    ELSE LET p == Head(r.put_queue)
             Tried(r1) == IF r1.request[p].state = "granted"
                          THEN [r1 EXCEPT !.put_queue = Tail(r.put_queue)]
                          ELSE r1
         IN  Value({Tried(r1) : r1 \in {DoPut(r, p, t)}})

\* repairman.request(priority=...): PriorityRequest.__init__ and Put.__init__.
Request(r, p, priority, t) ==
    LET Put(rq) == [r EXCEPT !.request = rq,
                             !.put_queue = SortedAppend(r.put_queue, rq, p)]
        Queued == [r.request EXCEPT ![p] =
                      [state |-> "queued", priority |-> priority, time |-> t,
                       usage_since |-> Zero]]
    IN  Value({TriggerPut(r1, t) : r1 \in {Put(Queued)}})

\* Faulty variant: the request is made without the with block, never released.
ExitWithNoRelease(r, p, t) == r

\* Request.__exit__: cancel() when not triggered, then resource.release(req)
\* (Release.__init__, _trigger_get, Resource._do_get, succeed).
ExitWith(r, p, t) ==
    LET pq == IF r.request[p].state = "queued"
              THEN RemoveProc(r.put_queue, p) ELSE r.put_queue
    IN  Res(RemoveProc(r.users, p), pq, [r.request EXCEPT ![p] = NoRequest],
            Schedule(r.queue, Event(t, NORMAL, "Release", p)))

\* ---------------------------------------------------------------- popping
Running == status = "running" /\ queue # <<>>
Ev == Head(queue)
Rest == Tail(queue)
Cur == Res(users, put_queue, request, Rest)

SetRes(r) ==
    /\ users' = r.users
    /\ put_queue' = r.put_queue
    /\ request' = r.request
    /\ queue' = r.queue

\* The event at the head calls back the Initialize or Interruption of
\* process p.
Popped(kind, p) ==
    /\ Running
    /\ Ev.kind = kind
    /\ Ev.proc = p

\* The event at the head is popped and calls back the Initialize or
\* Interruption of process p.
Pops(kind, p) ==
    /\ Popped(kind, p)
    /\ now' = Ev.time

\* Faulty variant: the event at the head resumes whichever process is suspended.
ResumedAnyProcess(p) ==
    /\ Running
    /\ Ev.kind \in {"Timeout", "Request"}
    /\ Ev.live

\* Process._resume of p is among the callbacks of the event at the head.
Resumed(p) ==
    /\ Running
    /\ Ev.kind \in {"Timeout", "Request"}
    /\ Ev.proc = p
    /\ Ev.live

\* The event at the head is popped and Process._resume of p is among its
\* callbacks: the generator of p continues from where it is suspended.
Resumes(p) ==
    /\ Resumed(p)
    /\ now' = Ev.time

\* The due time of the event process p waits for in the queue (-1: none).
NoDue == FlNeg(Num(1))
DueOf(q, p) ==
    LET S == {i \in 1 .. Len(q) : q[i].proc = p /\ q[i].live
                                  /\ q[i].kind \in {"Timeout", "Request"}}
    IN  IF S = {} THEN NoDue ELSE q[CHOOSE i \in S : \A j \in S : i <= j].time

\* History of the step: the action, its process and the state it started in.
Record(act, p) ==
    last' = [act |-> act, proc |-> p, users |-> users, put_queue |-> put_queue,
             wl |-> IF p \in Workers THEN work_left[p] ELSE Zero,
             since |-> IF p \in Workers THEN request[p].usage_since ELSE Zero,
             st |-> IF p \in Workers THEN start[p] ELSE Zero,
             due |-> DueOf(queue, p), held |-> held,
             parts |-> parts_made, works |-> works_made,
             pre |-> [now |-> now, queue |-> queue, pc |-> pc,
                      work_left |-> work_left, broken |-> broken,
                      request |-> request]]

\* ---------------------------------------------------------------- UnimportantWork
\* Faulty variant: UnimportantWork requesting at the Machines' priority.
UWRequestEqual(r, t) == Request(r, UW, 1, t)

\* Faulty variant: UnimportantWork requesting ahead of the Machines.
UWRequestUrgent(r, t) == Request(r, UW, 0, t)

\* UnimportantWork.working up to "yield req".
UWRequest(r, t) == Request(r, UW, 2, t)

\* The time UnimportantWork held the repairman under its current request.
HoldTime(t) ==
    IF request[UW].state = "granted" THEN Minus(t, request[UW].usage_since)
    ELSE Zero

\* Initialize of the UnimportantWork process: enter working.
UWInitialize ==
    /\ Pops("Initialize", UW)
    /\ pc[UW] = "start"
    /\ \E r0 \in {Cur} : \E r \in {UWRequest(r0, Ev.time)} : SetRes(r)
    /\ pc' = [pc EXCEPT ![UW] = "yield_req"]
    /\ Record("UWInitialize", UW)
    /\ UNCHANGED <<status, work_left, start, broken, parts_made, works_made, held>>

\* "yield req" returns: start = env.now; yield env.timeout(self.work_left).
\* env.timeout raises ValueError for a negative delay: the with block is left
\* and the process fails.
UWGranted ==
    /\ Resumes(UW)
    /\ pc[UW] = "yield_req"
    /\ start' = [start EXCEPT ![UW] = Ev.time]
    /\ IF Negative(work_left[UW])
       THEN /\ \E r0 \in {Cur} : \E r \in {ExitWith(r0, UW, Ev.time)} :
                  SetRes([r EXCEPT !.queue = Fails(r.queue, Ev.time, UW)])
            /\ pc' = [pc EXCEPT ![UW] = "terminated"]
       ELSE /\ queue' = Timeout(Rest, Ev.time, work_left[UW], UW)
            /\ pc' = [pc EXCEPT ![UW] = "yield_timeout"]
            /\ UNCHANGED <<request, users, put_queue>>
    /\ Record("UWGranted", UW)
    /\ UNCHANGED <<status, work_left, broken, parts_made, works_made,
                   held>>

\* Faulty variant: the except branch starts the job over.
UWInterruptedWorkLeftReset(wl, st, t) == Num(UNIMPORTANT_WORK_TIME)

\* work_left after the except branch of UnimportantWork.working.
UWInterruptedWorkLeft(wl, st, t) == Minus(wl, Minus(t, st))

\* work_left after work_left - work_done and finish_work_and_prepare_next.
UWFinishedWorkLeft(wl, st, t) == Num(UNIMPORTANT_WORK_TIME)

\* works_made after finish_work_and_prepare_next.
FinishWork(made) == made + 1

\* The work timeout fires: finish the job, leave the with block, work again.
UWWorkDone ==
    /\ Resumes(UW)
    /\ pc[UW] = "yield_timeout"
    /\ work_left' = [work_left EXCEPT ![UW] =
                        UWFinishedWorkLeft(work_left[UW], start[UW], Ev.time)]
    /\ works_made' = FinishWork(works_made)
    /\ \E r0 \in {Cur} :
       \E r1 \in {ExitWith(r0, UW, Ev.time)} :
       \E r \in {UWRequest(r1, Ev.time)} : SetRes(r)
    /\ pc' = [pc EXCEPT ![UW] = "yield_req"]
    /\ held' = Zero
    /\ Record("UWWorkDone", UW)
    /\ UNCHANGED <<status, start, broken, parts_made>>

\* An Interruption of the UnimportantWork process is delivered.
UWInterrupted ==
    /\ Pops("Interruption", UW)
    /\ IF pc[UW] = "yield_timeout"
       THEN \* except simpy.Interrupt: record the work left, work again
            /\ work_left' = [work_left EXCEPT ![UW] =
                    UWInterruptedWorkLeft(work_left[UW], start[UW], Ev.time)]
            /\ \E r0 \in {[Cur EXCEPT !.queue = Unhook(Rest, UW)]} :
               \E r1 \in {ExitWith(r0, UW, Ev.time)} :
               \E r \in {UWRequest(r1, Ev.time)} : SetRes(r)
            /\ pc' = [pc EXCEPT ![UW] = "yield_req"]
       ELSE \* thrown at "yield req", outside the try: the with block is left
            \* and the process fails with the Interrupt
            /\ pc[UW] = "yield_req"
            /\ \E r0 \in {[Cur EXCEPT !.queue = Unhook(Rest, UW)]} :
               \E r \in {ExitWith(r0, UW, Ev.time)} :
                  SetRes([r EXCEPT !.queue = Fails(r.queue, Ev.time, UW)])
            /\ pc' = [pc EXCEPT ![UW] = "terminated"]
            /\ UNCHANGED work_left
    /\ held' = Plus(held, HoldTime(Ev.time))
    /\ Record("UWInterrupted", UW)
    /\ UNCHANGED <<status, start, broken, parts_made, works_made>>

\* ---------------------------------------------------------------- Machine
\* Machine.working up to its yield: broken = False, start = now, timeout.
\* env.timeout raises ValueError for a negative delay: the process fails.
MachineEnterWorking(i, q, t, wl) ==
    /\ broken' = [broken EXCEPT ![i] = FALSE]
    /\ start' = [start EXCEPT ![i] = t]
    /\ IF Negative(wl)
       THEN /\ queue' = Fails(q, t, i)
            /\ pc' = [pc EXCEPT ![i] = "terminated"]
       ELSE /\ queue' = Timeout(q, t, wl, i)
            /\ pc' = [pc EXCEPT ![i] = "working"]

\* Faulty variants: the Machine requesting at the priority of UnimportantWork / at
\* a priority that is its own number.
MachineRequestLow(r, i, t) == Request(r, i, 2, t)
MachineRequestByNumber(r, i, t) == Request(r, i, i, t)

\* Machine.awaiting_repair up to "yield req".
MachineRequest(r, i, t) == Request(r, i, 1, t)

MachineInitialize(i) ==
    /\ Pops("Initialize", i)
    /\ pc[i] = "start"
    /\ MachineEnterWorking(i, Rest, Ev.time, work_left[i])
    /\ Record("MachineInitialize", i)
    /\ UNCHANGED <<status, work_left, parts_made, works_made, request, users,
                   put_queue, held>>

\* parts_made after finish_part_and_prepare_next.
FinishPart(made) == made + 1

\* The work timeout fires: count the part, draw the next one, work again.
MachinePartDone(i, parts) ==
    /\ Resumes(i)
    /\ pc[i] = "working"
    /\ parts_made' = [parts_made EXCEPT ![i] = FinishPart(parts_made[i])]
    /\ \E d \in parts :
          /\ work_left' = [work_left EXCEPT ![i] = d]
          /\ MachineEnterWorking(i, Rest, Ev.time, d)
    /\ Record("MachinePartDone", i)
    /\ UNCHANGED <<status, works_made, request, users, put_queue, held>>

\* Faulty variant: the except branch keeps work_left as it was.
MachineInterruptedWorkLeftKept(wl, st, t) == wl

\* work_left after the except branch of Machine.working.
MachineInterruptedWorkLeft(wl, st, t) == Minus(wl, Minus(t, st))

\* Faulty variant: the interrupted wait is taken for a finished part.
MachineInterruptedPartsCounted(made) == made + 1

\* parts_made after the except branch of Machine.working.
MachineInterruptedParts(made) == made

\* "yield req" returns in awaiting_repair: yield env.timeout(REPAIR_TIME).
MachineGranted(i) ==
    /\ Resumes(i)
    /\ pc[i] = "yield_req"
    /\ queue' = Timeout(Rest, Ev.time, Num(REPAIR_TIME), i)
    /\ pc' = [pc EXCEPT ![i] = "yield_repair"]
    /\ Record("MachineGranted", i)
    /\ UNCHANGED <<status, work_left, start, broken, parts_made, works_made,
                   request, users, put_queue, held>>

\* The repair timeout fires: leave the with block, finally: return working.
MachineRepaired(i) ==
    /\ Resumes(i)
    /\ pc[i] = "yield_repair"
    /\ \E r0 \in {Cur} : \E r \in {ExitWith(r0, i, Ev.time)} :
          /\ users' = r.users
          /\ put_queue' = r.put_queue
          /\ request' = r.request
          /\ MachineEnterWorking(i, r.queue, Ev.time, work_left[i])
    /\ Record("MachineRepaired", i)
    /\ UNCHANGED <<status, work_left, parts_made, works_made, held>>

\* An Interruption of a Machine process is delivered.
MachineInterrupted(i) ==
    /\ Pops("Interruption", i)
    /\ IF pc[i] = "working"
       THEN \* except simpy.Interrupt, then awaiting_repair up to "yield req"
            /\ work_left' = [work_left EXCEPT ![i] =
                    MachineInterruptedWorkLeft(work_left[i], start[i], Ev.time)]
            /\ parts_made' = [parts_made EXCEPT ![i] =
                    MachineInterruptedParts(parts_made[i])]
            /\ broken' = [broken EXCEPT ![i] = TRUE]
            /\ \E r0 \in {[Cur EXCEPT !.queue = Unhook(Rest, i)]} :
               \E r \in {MachineRequest(r0, i, Ev.time)} : SetRes(r)
            /\ pc' = [pc EXCEPT ![i] = "yield_req"]
            /\ UNCHANGED start
       ELSE \* in awaiting_repair: the with block is left, finally: working
            /\ pc[i] \in {"yield_req", "yield_repair"}
            /\ \E r0 \in {[Cur EXCEPT !.queue = Unhook(Rest, i)]} :
               \E r \in {ExitWith(r0, i, Ev.time)} :
                  /\ users' = r.users
                  /\ put_queue' = r.put_queue
                  /\ request' = r.request
                  /\ MachineEnterWorking(i, r.queue, Ev.time, work_left[i])
            /\ UNCHANGED <<work_left, parts_made>>
    /\ Record("MachineInterrupted", i)
    /\ UNCHANGED <<status, works_made, held>>

\* ---------------------------------------------------------------- MachineFailure
FailureInitialize(i, fails) ==
    /\ Pops("Initialize", Failure(i))
    /\ pc[Failure(i)] = "start"
    /\ \E d \in fails : queue' = Timeout(Rest, Ev.time, d, Failure(i))
    /\ pc' = [pc EXCEPT ![Failure(i)] = "yield_timeout"]
    /\ Record("FailureInitialize", Failure(i))
    /\ UNCHANGED <<status, work_left, start, broken, parts_made, works_made,
                   request, users, put_queue, held>>

\* Faulty variant: the failure interrupts without looking at broken.
BreaksMachineAlways(b) == TRUE

\* if not self.machine.broken: self.machine.process.interrupt()
BreaksMachine(b) == ~b

\* The failure timer fires: interrupt the machine unless broken, wait again.
\* process.interrupt() raises RuntimeError when the machine's process has
\* ended: the MachineFailure process fails.
BreakMachine(i, fails) ==
    /\ Resumes(Failure(i))
    /\ pc[Failure(i)] = "yield_timeout"
    /\ IF BreaksMachine(broken[i]) /\ pc[i] = "terminated"
       THEN /\ queue' = Fails(Rest, Ev.time, Failure(i))
            /\ pc' = [pc EXCEPT ![Failure(i)] = "terminated"]
       ELSE /\ \E d \in fails :
                  LET q1 == IF BreaksMachine(broken[i])
                            THEN Schedule(Rest,
                                     Event(Ev.time, URGENT, "Interruption", i))
                            ELSE Rest
                  IN  queue' = Timeout(q1, Ev.time, d, Failure(i))
            /\ UNCHANGED pc
    /\ Record("BreakMachine", Failure(i))
    /\ UNCHANGED <<status, work_left, start, broken, parts_made, works_made,
                   request, users, put_queue, held>>

\* ---------------------------------------------------------------- kernel events
\* An event whose only process callback was removed by an interrupt.
StaleEvent ==
    /\ Running
    /\ Ev.kind \in {"Timeout", "Request"}
    /\ ~Ev.live
    /\ now' = Ev.time
    /\ queue' = Rest
    /\ Record("StaleEvent", Ev.proc)
    /\ UNCHANGED <<status, pc, work_left, start, broken, parts_made, works_made,
                   request, users, put_queue, held>>

\* A Release event is processed: its callback is resource._trigger_put.
ReleaseProcessed ==
    /\ Running
    /\ Ev.kind = "Release"
    /\ now' = Ev.time
    /\ \E r0 \in {Cur} : \E r \in {TriggerPut(r0, Ev.time)} : SetRes(r)
    /\ Record("ReleaseProcessed", Ev.proc)
    /\ UNCHANGED <<status, pc, work_left, start, broken, parts_made, works_made, held>>

\* env.run(until=SIM_TIME) returns: the until event raises StopSimulation, or
\* the event of a process that failed raises that process's exception.
RunEnds ==
    /\ Running
    /\ Ev.kind \in {"Until", "Process"}
    /\ now' = Ev.time
    /\ queue' = Rest
    /\ status' = IF Ev.kind = "Until" THEN "stopped" ELSE "crashed"
    /\ Record("RunEnds", Ev.proc)
    /\ UNCHANGED <<pc, work_left, start, broken, parts_made, works_made,
                   request, users, put_queue, held>>

\* ---------------------------------------------------------------- specification
\* The Initialize events in the order the module creates the processes.
InitQueue ==
    LET F[i \in 0 .. NUM_MACHINES] ==
            IF i = 0 THEN <<Event(Zero, URGENT, "Initialize", UW)>>
            ELSE F[i - 1] \o <<Event(Zero, URGENT, "Initialize", Failure(i)),
                               Event(Zero, URGENT, "Initialize", i)>>
    IN  F[NUM_MACHINES]

\* The state when env.run is called; each Machine has drawn its first part.
Setup(parts) ==
    /\ now = Zero
    /\ queue = Schedule(InitQueue, Event(Num(SIM_TIME), URGENT, "Until", UW))
    /\ status = "running"
    /\ pc = [p \in Procs |-> "start"]
    /\ \E w \in [Machines -> parts] :
          work_left = [p \in Workers |->
              IF p = UW THEN Num(UNIMPORTANT_WORK_TIME) ELSE w[p]]
    /\ start = [p \in Workers |-> Zero]
    /\ broken = [i \in Machines |-> FALSE]
    /\ parts_made = [i \in Machines |-> 0]
    /\ works_made = 0
    /\ request = [p \in Workers |-> NoRequest]
    /\ users = <<>>
    /\ put_queue = <<>>
    /\ held = Zero
    /\ last = [act |-> "Init", proc |-> UW, users |-> <<>>, put_queue |-> <<>>,
               wl |-> Zero, since |-> Zero, st |-> Zero, due |-> NoDue,
               held |-> Zero,
               parts |-> [i \in Machines |-> 0], works |-> 0,
               pre |-> [now |-> Zero, queue |-> <<>>,
                        pc |-> [p \in Procs |-> "start"],
                        work_left |-> [p \in Workers |-> Zero],
                        broken |-> [i \in Machines |-> FALSE],
                        request |-> [p \in Workers |-> NoRequest]]]

\* env.step: the event at the head of the queue is processed; the draws made
\* by its callbacks return durations of parts and fails.
Step(parts, fails) ==
    \/ UWInitialize
    \/ UWGranted
    \/ UWWorkDone
    \/ UWInterrupted
    \/ \E i \in Machines : MachineInitialize(i)
    \/ \E i \in Machines : MachinePartDone(i, parts)
    \/ \E i \in Machines : MachineGranted(i)
    \/ \E i \in Machines : MachineRepaired(i)
    \/ \E i \in Machines : MachineInterrupted(i)
    \/ \E i \in Machines : FailureInitialize(i, fails)
    \/ \E i \in Machines : BreakMachine(i, fails)
    \/ StaleEvent
    \/ ReleaseProcessed
    \/ RunEnds

\* The draws of a step made before DrawTime return any duration of S, the
\* later ones the duration d.
Early(S, d) == IF queue # <<>> /\ Less(Ev.time, Num(DrawTime)) THEN S ELSE {d}

\* What time_per_part() and time_to_failure() may return in the next step.
PartDraws == Early(PartTimes, PartSamples[1])
FailDraws == Early(FailTimes, FailSamples[1])

Init == Setup(PartTimes)

Next == Step(PartDraws, FailDraws)

Spec == Init /\ [][Next]_vars

\* The runs in which failures coincide with each other and, for some draws,
\* with a rounded due time of a part; env.run keeps processing events.
TieInit == Setup(TieParts)

TieNext == Step(Early(TieParts, PartSamples[1]), Early(TieFails, FailSamples[1]))

TieSpec == TieInit /\ [][TieNext]_vars /\ WF_vars(TieNext)

\* ---------------------------------------------------------------- claims
Waiting(pq, p) == InSeq(pq, p)
MachineWaiting(pq) == \E i \in Machines : InSeq(pq, i)
LastIs(act) == last.act = act

\* C1: whenever UnimportantWork is preempted, its work_left afterwards is its
\* work_left before minus the time since it acquired the slot; the job is not
\* counted, not restarted and not dropped (it asks for the repairman again).
C1_PreemptedWorkPreserved ==
    LastIs("UWInterrupted") =>
        /\ work_left[UW] = Minus(last.wl, Minus(now, last.since))
        /\ works_made = last.works
        /\ pc[UW] = "yield_req"
        /\ request[UW].state = "queued"
        /\ Waiting(put_queue, UW)

C1_Witness ==
    /\ LastIs("UWInterrupted")
    /\ Less(last.since, now)
    /\ Positive(work_left[UW])
    /\ Less(work_left[UW], last.wl)

\* C2: a Machine interrupted in working, its timeout still to fire, counts no
\* part, reduces work_left by the time since it entered working and goes to
\* awaiting_repair; a work timeout that fires counts one part,
\* draws a fresh work_left and re-enters working.
C2_MachineWorking ==
    \A i \in Machines :
        /\ (LastIs("MachineInterrupted") /\ last.proc = i) =>
              /\ Leq(now, last.due)
              /\ parts_made[i] = last.parts[i]
              /\ work_left[i] = Minus(last.wl, Minus(now, start[i]))
              /\ pc[i] = "yield_req"
              /\ broken[i]
        /\ (LastIs("MachinePartDone") /\ last.proc = i) =>
              /\ last.due = now
              /\ parts_made[i] = last.parts[i] + 1
              /\ work_left[i] \in PartTimes
              /\ pc[i] = "working"
              /\ ~broken[i]
              /\ start[i] = now
              /\ DueOf(queue, i) = Plus(now, work_left[i])

C2_Witness ==
    /\ LastIs("MachineInterrupted")
    /\ Less(start[last.proc], now)
    /\ Positive(work_left[last.proc])
    /\ Less(work_left[last.proc], last.wl)

\* C3: the repairman never has more than one holder: no two Machines are
\* being repaired at once, and none is being repaired while UnimportantWork
\* holds the slot.
C3_Capacity ==
    /\ Len(users) <= 1
    /\ Cardinality({i \in Machines : pc[i] = "yield_repair"}) <= 1
    /\ \A i \in Machines :
          pc[i] = "yield_repair" => (users = <<i>> /\ ~InSeq(users, UW))

C3_Witness ==
    \E i \in Machines :
        /\ pc[i] = "yield_repair"
        /\ users = <<i>>
        /\ Waiting(put_queue, UW)
        /\ MachineWaiting(put_queue)

\* C4: a Machine requesting while UnimportantWork holds the slot becomes the
\* holder at once; UnimportantWork is out of the holders and its interrupt is
\* the next event processed, at the same virtual time.
C4_MachinePreemptsUW ==
    \A i \in Machines :
        (LastIs("MachineInterrupted") /\ last.proc = i /\ InSeq(last.users, UW)) =>
            /\ users = <<i>>
            /\ request[i].state = "granted"
            /\ request[i].usage_since = now
            /\ queue # <<>>
            /\ Head(queue).kind = "Interruption"
            /\ Head(queue).proc = UW
            /\ Head(queue).time = now

C4_Witness ==
    /\ LastIs("MachineInterrupted")
    /\ InSeq(last.users, UW)
    /\ users = <<last.proc>>
    /\ Positive(now)

\* C5: a Machine that holds the repairman stays a holder until it leaves its
\* with block, and a request that arrives while a Machine holds the slot is
\* queued, whether it comes from a Machine or from UnimportantWork.
C5_NoFalsePreemption ==
    /\ \A i \in Machines : request[i].state = "granted" => InSeq(users, i)
    /\ ( /\ last.act \in {"MachineInterrupted", "UWInterrupted", "UWWorkDone",
                          "UWInitialize"}
         /\ last.users # <<>>
         /\ Head(last.users) \in Machines
         /\ Head(last.users) # last.proc )
       => /\ users = last.users
          /\ pc[last.proc] = "yield_req"
          /\ request[last.proc].state = "queued"
          /\ Waiting(put_queue, last.proc)

C5_Witness ==
    /\ LastIs("MachineInterrupted")
    /\ last.users # <<>>
    /\ Head(last.users) \in Machines
    /\ users = last.users
    /\ Waiting(put_queue, last.proc)
    /\ Waiting(put_queue, UW)

\* C6: when the slot is given away while a Machine request and the request of
\* UnimportantWork both wait, a Machine gets it; UnimportantWork becomes a
\* holder only when no Machine request waits.
C6_ReleaseByPriority ==
    /\ (Waiting(last.put_queue, UW) /\ MachineWaiting(last.put_queue)
            /\ users # <<>> /\ users # last.users)
       => (Head(users) \in Machines /\ Waiting(put_queue, UW))
    /\ (LastIs("ReleaseProcessed") /\ last.users = <<>>
            /\ Waiting(last.put_queue, UW) /\ MachineWaiting(last.put_queue))
       => users # <<>>
    /\ (InSeq(users, UW) /\ ~InSeq(last.users, UW))
       => (~MachineWaiting(last.put_queue) /\ ~MachineWaiting(put_queue))

C6_Witness ==
    /\ LastIs("ReleaseProcessed")
    /\ last.users = <<>>
    /\ Waiting(last.put_queue, UW)
    /\ users # <<>>
    /\ Head(users) \in Machines
    /\ Less(request[UW].time, request[Head(users)].time)
    /\ Waiting(put_queue, UW)

\* C7: no waiting request is more important than a holder; UnimportantWork
\* never holds the repairman while a Machine's request waits.
C7_EagerPreemption ==
    /\ \A k \in 1 .. Len(users) : \A j \in 1 .. Len(put_queue) :
          request[put_queue[j]].priority >= request[users[k]].priority
    /\ InSeq(users, UW) => ~MachineWaiting(put_queue)

C7_Witness ==
    /\ LastIs("UWInterrupted")
    /\ users # <<>>
    /\ Head(users) \in Machines
    /\ put_queue = <<UW>>
    /\ request[UW].time = request[Head(users)].time
    /\ Positive(now)

\* C8: an interrupt is delivered at the virtual time it was raised and ahead
\* of every other event; the wait it cancelled never resumes its process, so
\* parts_made and works_made grow by one only when the process's own work
\* timeout fires after the whole work_left has passed since it began.
C8_InterruptCancelsWait ==
    /\ \A k \in 1 .. Len(queue) :
          queue[k].kind = "Interruption" =>
              /\ queue[k].time = now
              /\ \A j \in 1 .. k : queue[j].kind = "Interruption"
    /\ \A p \in Workers :
          Cardinality({k \in 1 .. Len(queue) :
              queue[k].proc = p /\ queue[k].live
              /\ queue[k].kind \in {"Timeout", "Request"}}) <= 1
    /\ last.act \in {"MachineInterrupted", "UWInterrupted"} =>
          \A k \in 1 .. Len(queue) :
              (queue[k].proc = last.proc /\ queue[k].kind = "Timeout")
                  => ~queue[k].live
    /\ \A i \in Machines :
          parts_made[i] # last.parts[i] =>
              /\ LastIs("MachinePartDone")
              /\ last.proc = i
              /\ parts_made[i] = last.parts[i] + 1
              /\ now = last.due
              /\ now = Plus(last.st, last.wl)
    /\ works_made # last.works =>
          /\ LastIs("UWWorkDone")
          /\ works_made = last.works + 1
          /\ now = last.due
          /\ now = Plus(last.st, last.wl)

C8_Witness ==
    /\ LastIs("StaleEvent")
    /\ last.proc \in Machines
    /\ pc[last.proc] = "yield_repair"
    /\ parts_made[last.proc] = last.parts[last.proc]
    /\ Less(start[last.proc], now)

\* C9: whenever a MachineFailure has called interrupt() on its machine, the
\* machine is not broken, is suspended on its work timeout in working and
\* neither holds nor waits for the repairman.
C9_InterruptOnlyWorking ==
    \A k \in 1 .. Len(queue) :
        (queue[k].kind = "Interruption" /\ queue[k].proc \in Machines) =>
            LET i == queue[k].proc
            IN  /\ ~broken[i]
                /\ pc[i] = "working"
                /\ Leq(now, DueOf(queue, i))
                /\ ~InSeq(users, i)
                /\ ~Waiting(put_queue, i)
                /\ request[i].state = "none"

C9_Witness ==
    /\ LastIs("BreakMachine")
    /\ queue # <<>>
    /\ Head(queue).kind = "Interruption"
    /\ Head(queue).proc = 0 - last.proc
    /\ Positive(now)

\* C10: work accounting of UnimportantWork is conservative: hold time plus
\* work_left of the job is UNIMPORTANT_WORK_TIME, a job is counted when its
\* hold time is UNIMPORTANT_WORK_TIME, and it is counted at the very moment
\* its hold time reaches UNIMPORTANT_WORK_TIME, so no uncounted job has that
\* hold time.
C10_CountedWhenReached ==
    /\ Plus(held, work_left[UW]) = Num(UNIMPORTANT_WORK_TIME)
    /\ works_made # last.works =>
          Plus(last.held, Minus(now, last.since)) = Num(UNIMPORTANT_WORK_TIME)
    /\ Less(held, Num(UNIMPORTANT_WORK_TIME))

\* Whether worker p is suspended inside its "with repairman.request" block.
InBlock(p) ==
    IF p = UW THEN pc[p] \in {"yield_req", "yield_timeout"}
    ELSE pc[p] \in {"yield_req", "yield_repair"}

\* Worker p was put out of the holders and its Interruption is not yet delivered.
Preempted(p) ==
    \E k \in 1 .. Len(queue) :
        /\ queue[k].kind = "Interruption"
        /\ queue[k].proc = p
        /\ queue[k].cause = "Preempted"

\* C11: request and release are paired: the holders and the wait queue hold
\* only workers suspended inside their request block (Machines in
\* awaiting_repair, UnimportantWork in its with block), each once and in one
\* of the two; a worker outside its block has no request at all; a worker
\* inside its block holds or waits, unless it was just preempted and its
\* Interruption is the pending event; a free slot with requests waiting
\* always has its Release event still to be processed.
C11_PairedBracket ==
    /\ \A p \in Workers :
          /\ (InSeq(users, p) \/ InSeq(put_queue, p)) => InBlock(p)
          /\ ~InBlock(p) => request[p] = NoRequest
          /\ InSeq(users, p) => request[p].state = "granted"
          /\ InSeq(put_queue, p) <=> request[p].state = "queued"
          /\ InBlock(p) => request[p].state \in {"granted", "queued"}
          /\ (request[p].state = "granted" /\ ~InSeq(users, p)) =>
                (p = UW /\ Preempted(p))
    /\ Len(users) + Len(put_queue) =
          Cardinality({p \in Workers : InBlock(p) /\ ~Preempted(p)})
    /\ \A i \in Machines : pc[i] = "working" => request[i] = NoRequest
    /\ (status = "running" /\ Len(users) < Capacity /\ put_queue # <<>>) =>
          \E k \in 1 .. Len(queue) : queue[k].kind = "Release"

C11_Witness ==
    /\ LastIs("MachineRepaired")
    /\ InSeq(last.users, last.proc)
    /\ pc[last.proc] = "working"
    /\ users = <<>>
    /\ MachineWaiting(put_queue)
    /\ Waiting(put_queue, UW)

\* The events of q due at time t with priority prio, in queue order, without
\* their callbacks.
TieSeq(q, t, prio) ==
    LET F[i \in 0 .. Len(q)] ==
            IF i = 0 THEN <<>>
            ELSE IF q[i].time = t /\ q[i].prio = prio
                 THEN Append(F[i - 1], [kind |-> q[i].kind, proc |-> q[i].proc])
                 ELSE F[i - 1]
    IN  F[Len(q)]

\* The Machines of a wait queue, in queue order.
MachSeq(pq) ==
    LET F[i \in 0 .. Len(pq)] ==
            IF i = 0 THEN <<>>
            ELSE IF pq[i] \in Machines THEN Append(F[i - 1], pq[i]) ELSE F[i - 1]
    IN  F[Len(pq)]

IsPrefix(a, b) == Len(a) <= Len(b) /\ SubSeq(b, 1, Len(a)) = a

\* C12: events due at the same virtual time with the same priority are
\* processed in the order they were scheduled: each step processes the head of
\* the queue, the events left keep their order, and an event scheduled by the
\* step stands behind the events of its time and priority that were there;
\* Machines waiting for the repairman are granted it in the order they asked.
C12_FifoTies ==
    /\ \A j \in 1 .. Len(queue) : \A k \in j .. Len(queue) :
          Before(queue[j], queue[k])
    /\ ~LastIs("Init") =>
          LET old == last.pre.queue
          IN  /\ now = Head(old).time
              /\ last.proc = Head(old).proc
              /\ \A k \in 1 .. Len(queue) :
                    IsPrefix(TieSeq(Tail(old), queue[k].time, queue[k].prio),
                             TieSeq(queue, queue[k].time, queue[k].prio))
              /\ \A k \in 2 .. Len(old) :
                    IsPrefix(TieSeq(Tail(old), old[k].time, old[k].prio),
                             TieSeq(queue, old[k].time, old[k].prio))
    /\ LET old == MachSeq(last.put_queue)
           granted == {i \in Machines : InSeq(users, i) /\ ~InSeq(last.users, i)}
       IN  IF granted = {}
           THEN IsPrefix(old, MachSeq(put_queue))
           ELSE \A i \in granted :
                   IF old = <<>>
                   THEN i = last.proc /\ MachSeq(put_queue) = <<>>
                   ELSE i = Head(old) /\ IsPrefix(Tail(old), MachSeq(put_queue))

C12_Witness ==
    /\ LastIs("ReleaseProcessed")
    /\ last.users = <<>>
    /\ Len(MachSeq(last.put_queue)) >= 2
    /\ users = <<Head(MachSeq(last.put_queue))>>
    /\ MachSeq(put_queue) = Tail(MachSeq(last.put_queue))
    /\ request[Head(MachSeq(put_queue))].time = request[Head(users)].time
    /\ Positive(request[Head(users)].time)
    /\ \E k \in 2 .. Len(queue) :
          /\ queue[k].kind = "Timeout" /\ queue[k - 1].kind = "Timeout"
          /\ queue[k].time = queue[k - 1].time
          /\ queue[k].proc = Failure(Head(MachSeq(put_queue)))
          /\ queue[k - 1].proc = Failure(Head(users))

\* C13: the run is deterministic apart from the drawn durations: with the
\* durations a step draws fixed, the step has one successor state only; it
\* is the step of the process of the event at the head of the queue, taken
\* at the time of that event, whatever other events are due at the same
\* time; once the run has ended there is no step.
C13_Deterministic ==
    /\ [][\A p \in PartDraws, f \in FailDraws :
             Step({p}, {f}) =>
                 /\ \E v \in {vars'} : ~ENABLED (Step({p}, {f}) /\ vars' # v)
                 /\ last'.proc = Ev.proc
                 /\ now' = Ev.time]_vars
    /\ [](status # "running" => ~ENABLED Next)

C13_Witness ==
    /\ LastIs("BreakMachine")
    /\ last.pre.queue[1].kind = "Timeout" /\ last.pre.queue[1].live
    /\ last.pre.queue[2].kind = "Timeout" /\ last.pre.queue[2].live
    /\ last.pre.queue[1].time = last.pre.queue[2].time
    /\ last.pre.queue[1].proc = last.proc
    /\ last.pre.queue[2].proc \in Workers
    /\ last.pre.pc[last.pre.queue[2].proc] \in {"working", "yield_timeout"}
    /\ Head(queue).kind = "Interruption"
    /\ Positive(now)

\* Process p is alive: it waits for its Initialize, for a pending event that
\* will resume it, or in the wait queue of the repairman.
Alive(p) ==
    \/ pc[p] = "start" /\ \E k \in 1 .. Len(queue) :
                              queue[k].kind = "Initialize" /\ queue[k].proc = p
    \/ pc[p] # "start" /\ Leq(now, DueOf(queue, p))
    \/ p \in Workers /\ pc[p] = "yield_req" /\ Waiting(put_queue, p)

\* C14: no process ends before the horizon, neither by returning nor by an
\* Interrupt it does not handle: every process is in one of the states of
\* its actor and, while the simulation runs, waits for something that will
\* resume it; the run never stops on the exception of a process.
C14_NoTermination ==
    /\ status # "crashed"
    /\ \A k \in 1 .. Len(queue) : queue[k].kind # "Process"
    /\ pc[UW] \in {"start", "yield_req", "yield_timeout"}
    /\ \A i \in Machines :
          /\ pc[i] \in {"start", "working", "yield_req", "yield_repair"}
          /\ pc[Failure(i)] \in {"start", "yield_timeout"}
    /\ status = "running" => \A p \in Procs : Alive(p)

C14_Witness ==
    \E i \in Machines :
        /\ pc[i] = "terminated"
        /\ Negative(work_left[i])
        /\ status = "running"
        /\ Less(now, Num(SIM_TIME))
        /\ queue # <<>>
        /\ Head(queue).kind = "Process"
        /\ Head(queue).proc = i
        /\ \A p \in Procs \ {i} : Alive(p)

\* C15: env.run(until=SIM_TIME) ends by reaching the horizon: while it runs,
\* the until event and at least one event of a process are scheduled (no
\* deadlock); virtual time does not pass SIM_TIME, no handler runs at
\* SIM_TIME or later, the run never ends on an exception, and eventually it
\* has stopped with env.now = SIM_TIME.
C15_ReachesHorizon ==
    /\ [](status = "running" =>
            /\ \E k \in 1 .. Len(queue) :
                  queue[k].kind = "Until" /\ queue[k].time = Num(SIM_TIME)
            /\ \E k \in 1 .. Len(queue) :
                  /\ queue[k].kind # "Until"
                  /\ (queue[k].live \/ Leq(queue[k].time, Num(SIM_TIME)))
            /\ Less(now, Num(SIM_TIME)))
    /\ [](/\ status # "crashed"
          /\ Leq(now, Num(SIM_TIME))
          /\ (now = Num(SIM_TIME) <=> status = "stopped")
          /\ (now = Num(SIM_TIME) => LastIs("RunEnds")))
    /\ <>(status = "stopped" /\ now = Num(SIM_TIME))

C15_Witness ==
    /\ status = "crashed"
    /\ LastIs("RunEnds")
    /\ Head(last.pre.queue).kind = "Process"
    /\ Less(now, Num(SIM_TIME))
    /\ \E k \in 1 .. Len(queue) :
          queue[k].kind = "Until" /\ queue[k].time = Num(SIM_TIME)

\* C16: a failure timer that fires while its machine is broken is dropped:
\* no Interruption is scheduled, then or later; the states of all processes,
\* work_left, the counters, the holders and the wait queue are as before; the
\* event queue is the old one without its head and with the next timer of
\* that MachineFailure.  An Interruption of a Machine is pending only right
\* after its failure timer found it not broken.
C16_FailureDropped ==
    \A i \in Machines :
        /\ (LastIs("BreakMachine") /\ last.proc = Failure(i) /\ last.pre.broken[i]) =>
              /\ pc = last.pre.pc
              /\ work_left = last.pre.work_left
              /\ broken = last.pre.broken
              /\ request = last.pre.request
              /\ users = last.users
              /\ put_queue = last.put_queue
              /\ parts_made = last.parts
              /\ works_made = last.works
              /\ held = last.held
              /\ \A k \in 1 .. Len(queue) : queue[k].kind # "Interruption"
              /\ \E k \in 1 .. Len(queue) :
                    /\ queue[k] = Event(DueOf(queue, Failure(i)), NORMAL,
                                        "Timeout", Failure(i))
                    /\ \E d \in FailTimes : queue[k].time = Plus(now, d)
                    /\ SubSeq(queue, 1, k - 1) \o SubSeq(queue, k + 1, Len(queue))
                           = Tail(last.pre.queue)
        /\ \A k \in 1 .. Len(queue) :
              (queue[k].kind = "Interruption" /\ queue[k].proc = i) =>
                  /\ LastIs("BreakMachine")
                  /\ last.proc = Failure(i)
                  /\ ~last.pre.broken[i]

C16_Witness ==
    \E i \in Machines :
        /\ LastIs("BreakMachine")
        /\ last.proc = Failure(i)
        /\ last.pre.broken[i]
        /\ pc[i] = "yield_req"
        /\ Waiting(put_queue, i)
        /\ Positive(now)

\* C17: UnimportantWork is interrupted only while it waits for its work
\* timeout inside the try block: whenever its Interruption is pending it is
\* at that yield with the timeout still pending, and the step that delivers
\* it finds it there and sends it back to "yield req"; between being granted
\* the slot and being resumed it stays a holder, so no Interrupt is thrown at
\* "yield req" and none ends the process.
C17_UWInterruptInTry ==
    /\ Preempted(UW) =>
          /\ pc[UW] = "yield_timeout"
          /\ Leq(now, DueOf(queue, UW))
          /\ request[UW].state = "granted"
          /\ ~InSeq(users, UW)
          /\ Head(queue).kind = "Interruption" /\ Head(queue).proc = UW
    /\ \A k \in 1 .. Len(queue) :
          (queue[k].kind = "Interruption" /\ queue[k].proc = UW) => queue[k].time = now
    /\ LastIs("UWInterrupted") =>
          /\ last.pre.pc[UW] = "yield_timeout"
          /\ pc[UW] = "yield_req"
          /\ Leq(last.st, now)
    /\ (pc[UW] = "yield_req" /\ request[UW].state = "granted") =>
          (InSeq(users, UW) /\ DueOf(queue, UW) = request[UW].usage_since)
    /\ pc[UW] # "terminated"

C17_Witness ==
    /\ LastIs("UWInterrupted")
    /\ last.pre.pc[UW] = "yield_timeout"
    /\ last.since = now
    /\ last.st = now
    /\ work_left[UW] = last.wl
    /\ pc[UW] = "yield_req"
    /\ Waiting(put_queue, UW)

\* C19: a Machine goes from awaiting_repair to working only by its repair
\* timeout firing REPAIR_TIME after it was granted the repairman, which it
\* held all that time; an Interruption is delivered to a Machine only in
\* working, and while a Machine is being repaired its repair timeout stays
\* pending for the instant REPAIR_TIME after the grant.
C19_RepairNotCutShort ==
    /\ \A i \in Machines :
          /\ (last.pre.pc[i] \in {"yield_req", "yield_repair"} /\ pc[i] = "working") =>
                /\ LastIs("MachineRepaired")
                /\ last.proc = i
                /\ last.pre.pc[i] = "yield_repair"
                /\ last.pre.request[i].state = "granted"
                /\ last.users = <<i>>
                /\ now = Plus(last.pre.request[i].usage_since, Num(REPAIR_TIME))
                /\ now = last.due
          /\ pc[i] = "yield_repair" =>
                /\ users = <<i>>
                /\ DueOf(queue, i) = Plus(request[i].usage_since, Num(REPAIR_TIME))
                /\ Leq(now, DueOf(queue, i))
          /\ pc[i] \in {"yield_req", "yield_repair"} => (broken[i] /\ ~Preempted(i))
    /\ LastIs("MachineInterrupted") =>
          (last.pre.pc[last.proc] = "working" /\ pc[last.proc] = "yield_req")

C19_Witness ==
    /\ LastIs("MachineRepaired")
    /\ last.pre.pc[last.proc] = "yield_repair"
    /\ last.pre.broken[last.proc]
    /\ pc[last.proc] = "working"
    /\ ~broken[last.proc]
    /\ now = Plus(last.since, Num(REPAIR_TIME))
    /\ Positive(last.since)
    /\ Positive(work_left[last.proc])

\* The time n repairs end that follow one another from time t.
RECURSIVE AfterRepairs(_, _)
AfterRepairs(t, n) ==
    IF n = 0 THEN t ELSE Plus(AfterRepairs(t, n - 1), Num(REPAIR_TIME))

\* The latest a Machine that asked for the repairman at time t is granted it:
\* after one repair of every other Machine.
LatestGrant(t) == AfterRepairs(t, NUM_MACHINES - 1)

\* C20: no Machine starves: a Machine waiting for the repairman has waited at
\* most one repair per other Machine, and while it waits a Machine holds the
\* repairman or the Release that will hand it over is pending; every Machine
\* in awaiting_repair whose turn comes before the horizon is eventually
\* being repaired, and every Machine whose repair ends before the horizon
\* eventually works again, as long as env.run keeps processing events (it
\* has not stopped on the exception of a process).
C20_NoStarvation ==
    /\ [](\A i \in Machines :
            (pc[i] = "yield_req" /\ status = "running") =>
                /\ Leq(now, LatestGrant(request[i].time))
                /\ \/ request[i].state = "granted"
                   \/ (users # <<>> /\ Head(users) \in Machines)
                   \/ \E k \in 1 .. Len(queue) :
                          queue[k].kind = "Release" /\ queue[k].time = now)
    /\ \A i \in Machines :
          (pc[i] = "yield_req"
               /\ Less(LatestGrant(request[i].time), Num(SIM_TIME)))
          ~> (pc[i] = "yield_repair" \/ status = "crashed")
    /\ \A i \in Machines :
          (pc[i] = "yield_repair"
               /\ Less(Plus(request[i].usage_since, Num(REPAIR_TIME)),
                       Num(SIM_TIME)))
          ~> (pc[i] = "working" \/ status = "crashed")

C20_Witness ==
    \E i \in Machines :
        /\ LastIs("MachineRepaired")
        /\ last.proc = i
        /\ pc[i] = "working"
        /\ status = "running"
        /\ last.since = LatestGrant(last.pre.request[i].time)
        /\ now = AfterRepairs(last.pre.request[i].time, NUM_MACHINES)
        /\ Less(now, Num(SIM_TIME))
        /\ Waiting(put_queue, UW)
        /\ \A j \in Machines : pc[j] = "working"

\* C18: the delay of every timeout is non-negative: work_left of the Machines
\* and of UnimportantWork is never negative, also after an interrupt at
\* exactly the time the work timeout was due, and no process ends on a
\* negative delay.
C18_NonNegativeDelays ==
    /\ \A p \in Workers : ~Negative(work_left[p])
    /\ \A p \in Procs : pc[p] # "terminated"
    /\ status # "crashed"
====
